---- MODULE Spec2Model ----
(***************************************************************************)
(* A model of the retrieval pipeline of search.go: text normalisation,     *)
(* inverted index, TF-IDF weighting, cosine / Jaccard scoring and the      *)
(* ranked search.  Texts are TLA+ strings; a character is a string of      *)
(* length one.  float64 values are modelled bit-exactly (see the float64   *)
(* section).                                                               *)
(***************************************************************************)
EXTENDS Integers, Sequences, FiniteSets, TLC

(***************************************************************************)
(* Characters and strings (Go: strings, unicode, regexp on ASCII input).   *)
(* The operators work by position rather than by recursion over the text.  *)
(***************************************************************************)
LowerLetters == "abcdefghijklmnopqrstuvwxyz"
UpperLetters == "ABCDEFGHIJKLMNOPQRSTUVWXYZ"
DigitChars == "0123456789"

CharAt(s, i) == SubSeq(s, i, i)

CharsOf(s) == {CharAt(s, i) : i \in 1..Len(s)}

DigitSet == CharsOf(DigitChars)
UpperSet == CharsOf(UpperLetters)
WordCharSet == CharsOf(LowerLetters) \cup UpperSet \cup DigitSet \cup {"_"}

IsDigit(c) == c \in DigitSet

\* \w of the regexp package: [0-9A-Za-z_]
IsWordChar(c) == c \in WordCharSet

\* \s of the regexp package and unicode.IsSpace agree on the model's inputs,
\* whose only white space is the blank.
IsSpace(c) == c = " "

\* The elements of a finite set of integers in ascending order.
SortedSeq(S) ==
    [k \in 1..Cardinality(S) |-> CHOOSE x \in S : Cardinality({y \in S : y < x}) = k - 1]

\* The concatenation of the strings pieces[lo], ..., pieces[hi].
RECURSIVE ConcatRange(_, _, _)
ConcatRange(pieces, lo, hi) ==
    IF lo > hi THEN ""
    ELSE IF lo = hi THEN pieces[lo]
         ELSE LET mid == (lo + hi) \div 2
              IN  ConcatRange(pieces, lo, mid) \o ConcatRange(pieces, mid + 1, hi)

Concat(pieces) == ConcatRange(pieces, 1, Len(pieces))

ToLowerChar(c) ==
    IF c \in UpperSet
    THEN CharAt(LowerLetters, CHOOSE i \in 1..Len(UpperLetters) : CharAt(UpperLetters, i) = c)
    ELSE c

ToLower(s) == Concat([i \in 1..Len(s) |-> ToLowerChar(CharAt(s, i))])

HasPrefix(s, p) == Len(s) >= Len(p) /\ SubSeq(s, 1, Len(p)) = p

HasSuffix(s, p) == Len(s) >= Len(p) /\ SubSeq(s, Len(s) - Len(p) + 1, Len(s)) = p

TrimPrefix(s, p) == IF HasPrefix(s, p) THEN SubSeq(s, Len(p) + 1, Len(s)) ELSE s

TrimSuffix(s, p) == IF HasSuffix(s, p) THEN SubSeq(s, 1, Len(s) - Len(p)) ELSE s

\* strings.Fields: the maximal runs of non-space characters, in order.
Fields(s) ==
    LET NonSpace(i) == ~IsSpace(CharAt(s, i))
        starts == SortedSeq({i \in 1..Len(s) : NonSpace(i) /\ (i = 1 \/ ~NonSpace(i - 1))})
        ends == SortedSeq({i \in 1..Len(s) : NonSpace(i) /\ (i = Len(s) \/ ~NonSpace(i + 1))})
    IN  [k \in 1..Len(starts) |-> SubSeq(s, starts[k], ends[k])]

TrimSpace(s) ==
    LET nonSpace == {i \in 1..Len(s) : ~IsSpace(CharAt(s, i))}
    IN  IF nonSpace = {} THEN ""
        ELSE SubSeq(s, CHOOSE i \in nonSpace : \A j \in nonSpace : i <= j,
                       CHOOSE i \in nonSpace : \A j \in nonSpace : j <= i)

(***************************************************************************)
(* Natural numbers of any size, as little-endian sequences of 14-bit       *)
(* limbs without leading zero limbs (zero is the empty sequence).  They    *)
(* carry the 53-bit significands of float64 and the exact intermediate     *)
(* results of its operations.                                              *)
(***************************************************************************)
LimbBits == 7 + 7
LimbBase == 2 ^ LimbBits

Limb(a, i) == IF i <= Len(a) THEN a[i] ELSE 0

RECURSIVE BNorm(_)
BNorm(a) ==
    IF a # <<>> /\ a[Len(a)] = 0 THEN BNorm(SubSeq(a, 1, Len(a) - 1)) ELSE a

BFromInt(k) ==
    BNorm(<< k % LimbBase, (k \div LimbBase) % LimbBase, k \div (LimbBase * LimbBase) >>)

RECURSIVE BAddFrom(_, _, _, _)
BAddFrom(a, b, i, carry) ==
    IF i > Len(a) /\ i > Len(b)
    THEN IF carry = 0 THEN <<>> ELSE <<carry>>
    ELSE LET t == Limb(a, i) + Limb(b, i) + carry
         IN  <<t % LimbBase>> \o BAddFrom(a, b, i + 1, t \div LimbBase)

BAdd(a, b) == BAddFrom(a, b, 1, 0)

\* a - b for a >= b
RECURSIVE BSubFrom(_, _, _, _)
BSubFrom(a, b, i, borrow) ==
    IF i > Len(a) THEN <<>>
    ELSE LET t == a[i] - Limb(b, i) - borrow
         IN  IF t < 0
             THEN <<t + LimbBase>> \o BSubFrom(a, b, i + 1, 1)
             ELSE <<t>> \o BSubFrom(a, b, i + 1, 0)

BSub(a, b) == BNorm(BSubFrom(a, b, 1, 0))

\* -1, 0, 1 as a < b, a = b, a > b
RECURSIVE BCmpFrom(_, _, _)
BCmpFrom(a, b, i) ==
    IF i = 0 THEN 0
    ELSE IF a[i] < b[i] THEN -1
         ELSE IF a[i] > b[i] THEN 1
              ELSE BCmpFrom(a, b, i - 1)

BCmp(a, b) ==
    IF Len(a) < Len(b) THEN -1
    ELSE IF Len(a) > Len(b) THEN 1
         ELSE BCmpFrom(a, b, Len(a))

\* a * k for 0 <= k < LimbBase
RECURSIVE BMulSmallFrom(_, _, _, _)
BMulSmallFrom(a, k, i, carry) ==
    IF i > Len(a)
    THEN IF carry = 0 THEN <<>> ELSE <<carry>>
    ELSE LET t == a[i] * k + carry
         IN  <<t % LimbBase>> \o BMulSmallFrom(a, k, i + 1, t \div LimbBase)

BMulSmall(a, k) == IF k = 0 THEN <<>> ELSE BMulSmallFrom(a, k, 1, 0)

\* the quotient of a by k for 0 < k < LimbBase, from the top limb down
RECURSIVE BDivSmallFrom(_, _, _, _)
BDivSmallFrom(a, k, i, rem) ==
    IF i = 0 THEN <<>>
    ELSE LET t == rem * LimbBase + a[i]
         IN  BDivSmallFrom(a, k, i - 1, t % k) \o <<t \div k>>

BDivSmall(a, k) == BNorm(BDivSmallFrom(a, k, Len(a), 0))

ZeroLimbs(n) == [i \in 1..n |-> 0]

BShl(a, n) ==
    IF a = <<>> THEN <<>>
    ELSE ZeroLimbs(n \div LimbBits) \o BMulSmall(a, 2 ^ (n % LimbBits))

BShr(a, n) ==
    IF n \div LimbBits >= Len(a) THEN <<>>
    ELSE BDivSmall(SubSeq(a, n \div LimbBits + 1, Len(a)), 2 ^ (n % LimbBits))

RECURSIVE BMulFrom(_, _, _)
BMulFrom(a, b, i) ==
    IF i > Len(b) THEN <<>>
    ELSE BAdd(ZeroLimbs(i - 1) \o BMulSmall(a, b[i]), BMulFrom(a, b, i + 1))

BMul(a, b) == BNorm(BMulFrom(a, b, 1))

RECURSIVE IntBitLen(_)
IntBitLen(k) == IF k = 0 THEN 0 ELSE 1 + IntBitLen(k \div 2)

BBitLen(a) == IF a = <<>> THEN 0 ELSE LimbBits * (Len(a) - 1) + IntBitLen(a[Len(a)])

BIsOdd(a) == a # <<>> /\ a[1] % 2 = 1

\* bit i (0 = least significant) of a
BBit(a, i) == (Limb(a, i \div LimbBits + 1) \div 2 ^ (i % LimbBits)) % 2

\* TLC evaluates an argument where it is first used; Evaluated(v) uses v, so
\* that a loop's intermediate state is computed before the loop goes on and
\* the evaluation stays shallow.
Evaluated(v) == v = v

\* The quotient limb for the remainder r: the estimate q, lowered until
\* b * q fits into r.
RECURSIVE BDivFit(_, _, _)
BDivFit(b, r, q) ==
    IF BCmp(BMulSmall(b, q), r) <= 0 THEN q ELSE BDivFit(b, r, q - 1)

BDivEstimate(b, r) ==
    LET est == (Limb(r, Len(b) + 1) * LimbBase + Limb(r, Len(b))) \div b[Len(b)]
    IN  IF est > LimbBase - 1 THEN LimbBase - 1 ELSE est

BDivTake(st, b, r, q) == [quo |-> <<q>> \o st.quo, rem |-> BSub(r, BMulSmall(b, q))]

BDivRem(st, b, r) == BDivTake(st, b, r, BDivFit(b, r, BDivEstimate(b, r)))

\* One step of long division by b, whose top limb is at least LimbBase / 2:
\* limb d is brought down to the remainder and the quotient limb is the
\* estimate from the top limbs, lowered by at most 2 (Knuth, algorithm D).
BDivStep(st, b, d) == BDivRem(st, b, BNorm(<<d>> \o st.rem))

\* the steps for limbs i down to 1 of a
RECURSIVE BDivLimbs(_, _, _, _)
BDivNext(a, b, i, next) ==
    IF Evaluated(next) THEN BDivLimbs(a, b, i - 1, next) ELSE next

BDivLimbs(a, b, i, st) ==
    IF i = 0 THEN st ELSE BDivNext(a, b, i, BDivStep(st, b, a[i]))

BDivResult(st) == [quo |-> BNorm(st.quo), exact |-> st.rem = <<>>]

BDivFrom(an, bn) == BDivResult(BDivLimbs(an, bn, Len(an), [quo |-> <<>>, rem |-> <<>>]))

\* Quotient of a by b > 0, and whether the division leaves a remainder.
BDivMod(a, b) ==
    BDivFrom(BShl(a, LimbBits * Len(b) - BBitLen(b)), BShl(b, LimbBits * Len(b) - BBitLen(b)))

\* Newton's iteration for the integer square root, from an x >= root.
RECURSIVE BSqrtNewton(_, _)
BSqrtNext(a, x, y) == IF BCmp(y, x) >= 0 THEN x ELSE BSqrtNewton(a, y)

BSqrtNewton(a, x) == BSqrtNext(a, x, BShr(BAdd(x, BDivMod(a, x).quo), 1))

\* the same iteration on an int k > 0, from an x >= root
RECURSIVE IntSqrtNewton(_, _)
IntSqrtNewton(k, x) ==
    LET y == (x + k \div x) \div 2
    IN  IF y >= x THEN x ELSE IntSqrtNewton(k, y)

BSqrtResult(a, root) == [root |-> root, exact |-> BMul(root, root) = a]

\* The start of the iteration: above the root, from the root of the top bits
\* k of a.
BSqrtStart(k, sh) ==
    BShl(BFromInt(IntSqrtNewton(k, 2 ^ ((IntBitLen(k) + 1) \div 2)) + 1), sh \div 2)

BSqrtTop(top) == Limb(top, 1) + LimbBase * Limb(top, 2) + 1

BSqrtAt(a, sh) == BSqrtResult(a, BSqrtNewton(a, BSqrtStart(BSqrtTop(BShr(a, sh)), sh)))

\* Integer square root of a > 0, and whether a is that root's square.
BSqrt(a) ==
    LET low == 2 * ((BBitLen(a) - 2 * (LimbBits - 1) + 1) \div 2)
    IN  BSqrtAt(a, IF low < 0 THEN 0 ELSE low)

(***************************************************************************)
(* float64 (IEEE 754 binary64), non-negative finite values only: every     *)
(* float64 of the pipeline is a count, a logarithm of a ratio >= 1, or a   *)
(* sum, product, quotient or square root of such.  A value is m * 2^e with *)
(* 2^52 <= m < 2^53, or zero (m empty).  Each operation returns the        *)
(* exact result rounded to nearest, ties to even, as the hardware does.    *)
(***************************************************************************)
Precision == 50 + 3

FZero == [m |-> <<>>, e |-> 0]

FIsZero(x) == x.m = <<>>

\* The float64 nearest to (n + f) * 2^e, where 0 <= f < 1 and f > 0 iff sticky;
\* n has at least Precision + 2 bits when sticky.
FRenorm(q, e) ==
    IF BBitLen(q) > Precision THEN [m |-> BShr(q, 1), e |-> e + 1] ELSE [m |-> q, e |-> e]

\* q is n without its low sh bits, c compares those bits to one half
FRoundHalf(q, e, c, sticky) ==
    FRenorm(IF c > 0 \/ (c = 0 /\ (sticky \/ BIsOdd(q))) THEN BAdd(q, <<1>>) ELSE q, e)

FRoundCut(n, e, sticky, sh, q) ==
    FRoundHalf(q, e + sh, BCmp(BSub(n, BShl(q, sh)), BShl(<<1>>, sh - 1)), sticky)

FRoundLen(n, e, sticky, len) ==
    IF len <= Precision
    THEN [m |-> BShl(n, Precision - len), e |-> e - (Precision - len)]
    ELSE FRoundCut(n, e, sticky, len - Precision, BShr(n, len - Precision))

FRound(n, e, sticky) ==
    IF n = <<>> THEN FZero ELSE FRoundLen(n, e, sticky, BBitLen(n))

\* float64(k) for an int 0 <= k < 2^31
FFromInt(k) == FRound(BFromInt(k), 0, FALSE)

FMul(x, y) ==
    IF FIsZero(x) \/ FIsZero(y) THEN FZero
    ELSE FRound(BMul(x.m, y.m), x.e + y.e, FALSE)

FAdd(x, y) ==
    IF FIsZero(x) THEN y
    ELSE IF FIsZero(y) THEN x
         ELSE LET e == IF x.e < y.e THEN x.e ELSE y.e
              IN  FRound(BAdd(BShl(x.m, x.e - e), BShl(y.m, y.e - e)), e, FALSE)

FRoundQuo(d, e) == FRound(d.quo, e, ~d.exact)

\* x / y for y > 0
FDiv(x, y) ==
    IF FIsZero(x) THEN FZero
    ELSE FRoundQuo(BDivMod(BShl(x.m, Precision + 3), y.m), x.e - y.e - (Precision + 3))

FRoundRoot(s, e) == FRound(s.root, e, ~s.exact)

\* math.Sqrt
FSqrt(x) ==
    IF FIsZero(x) THEN FZero
    ELSE LET k == IF (x.e % 2) = 0 THEN Precision + 3 ELSE Precision + 4
         IN  FRoundRoot(BSqrt(BShl(x.m, k)), (x.e - k) \div 2)

\* -1, 0, 1 as x < y, x = y, x > y
FCmp(x, y) ==
    IF FIsZero(x) THEN (IF FIsZero(y) THEN 0 ELSE -1)
    ELSE IF FIsZero(y) THEN 1
         ELSE IF x.e < y.e THEN -1
              ELSE IF x.e > y.e THEN 1
                   ELSE BCmp(x.m, y.m)

FGt(x, y) == FCmp(x, y) > 0

\* The float64 0x1.<frac>p<exp>: frac is the 13 hexadecimal digits of the
\* significand after the leading 1.
HexDigits == "0123456789abcdef"

HexValue(c) == (CHOOSE i \in 1..Len(HexDigits) : CharAt(HexDigits, i) = c) - 1

RECURSIVE BFromHex(_, _)
BFromHex(hex, n) ==
    IF n = 0 THEN <<1>>
    ELSE BAdd(BMulSmall(BFromHex(hex, n - 1), Len(HexDigits)), BFromInt(HexValue(CharAt(hex, n))))

FHex(frac, exp) == [m |-> BFromHex(frac, Len(frac)), e |-> exp - 4 * Len(frac)]

FOne == FFromInt(1)

\* math.Log at the ratios totalDocs / DocFrequency of collections of up to 5
\* documents: the values of the package's algorithm (log.go: argument
\* reduction by Frexp, then the polynomial in s = f / (2 + f)).
MathLogTable ==
    << 
       \* math.Log(1 / 1) = 0.0
       <<FHex("0000000000000", 0), FZero>>,
       \* math.Log(5 / 4) = 0.22314355131420976
       <<FHex("4000000000000", 0), FHex("c8ff7c79a9a22", -3)>>,
       \* math.Log(4 / 3) = 0.2876820724517809
       <<FHex("5555555555555", 0), FHex("269621134db92", -2)>>,
       \* math.Log(3 / 2) = 0.4054651081081644
       <<FHex("8000000000000", 0), FHex("9f323ecbf984c", -2)>>,
       \* math.Log(5 / 3) = 0.5108256237659907
       <<FHex("aaaaaaaaaaaab", 0), FHex("058aefa811452", -1)>>,
       \* math.Log(2 / 1) = 0.6931471805599453
       <<FHex("0000000000000", 1), FHex("62e42fefa39ef", -1)>>,
       \* math.Log(5 / 2) = 0.9162907318741551
       <<FHex("4000000000000", 1), FHex("d5240f0e0e078", -1)>>,
       \* math.Log(3 / 1) = 1.0986122886681096
       <<FHex("8000000000000", 1), FHex("193ea7aad030a", 0)>>,
       \* math.Log(4 / 1) = 1.3862943611198906
       <<FHex("0000000000000", 2), FHex("62e42fefa39ef", 0)>>,
       \* math.Log(5 / 1) = 1.6094379124341003
       <<FHex("4000000000000", 2), FHex("9c041f7ed8d33", 0)>>
    >>

TableValue(table, x) == table[CHOOSE i \in 1..Len(table) : table[i][1] = x][2]

MathLog(x) == TableValue(MathLogTable, x)

(***************************************************************************)
(* TextProcessor                                                           *)
(***************************************************************************)
prefixes ==
    << "me", "pe", "be", "te", "di", "ke", "se",
       "ber", "per", "ter", "mem", "pem", "pen",
       "meng", "peng", "meny", "peny" >>

suffixes ==
    << "kan", "an", "i", "lah", "kah", "nya", "ku", "mu",
       "wan", "wati", "isme" >>

initializeStopWords ==
    { "yang", "dan", "atau", "tetapi", "namun",
      "melainkan", "sedangkan", "sebaliknya",
      "di", "ke", "dari", "dalam", "kepada",
      "pada", "oleh", "untuk", "bagi", "tentang",
      "menurut", "seperti", "sebagai",
      "ini", "itu", "tersebut", "berikut",
      "saya", "anda", "dia", "mereka", "kita",
      "kami", "kamu", "ia", "beliau",
      "akan", "sudah", "telah", "sedang", "masih",
      "hendak", "bisa", "dapat", "bukan", "jangan",
      "sangat", "hanya", "juga", "saja", "lagi",
      "sekarang", "yakni", "yaitu",
      "apa", "siapa", "dimana", "kapan", "kenapa",
      "bagaimana", "mengapa",
      "satu", "dua", "tiga", "empat", "lima",
      "enam", "tujuh", "delapan", "sembilan", "sepuluh",
      "pertama", "kedua", "ketiga", "keempat", "kelima" }

\* punctuation.ReplaceAllString(text, " "): every character that is neither
\* \w nor \s becomes a blank.
ReplacePunctuation(s) ==
    Concat([i \in 1..Len(s) |->
              LET c == CharAt(s, i)
              IN  IF IsWordChar(c) \/ IsSpace(c) THEN c ELSE " "])

\* numbers.ReplaceAllString(text, " ") for \b\d+\b : a maximal run of digits
\* with no word character before it and none after it becomes one blank.
ReplaceNumbers(s) ==
    LET Digit(i) == i >= 1 /\ i <= Len(s) /\ IsDigit(CharAt(s, i))
        Word(i) == i >= 1 /\ i <= Len(s) /\ IsWordChar(CharAt(s, i))
        runStart(i) == CHOOSE a \in 1..i :
                          (\A j \in a..i : Digit(j)) /\ ~Digit(a - 1)
        runEnd(i) == CHOOSE b \in i..Len(s) :
                          (\A j \in i..b : Digit(j)) /\ ~Digit(b + 1)
        standalone(i) == ~Word(runStart(i) - 1) /\ ~Word(runEnd(i) + 1)
    IN  Concat([i \in 1..Len(s) |->
                  IF Digit(i) /\ standalone(i)
                  THEN (IF runStart(i) = i THEN " " ELSE "")
                  ELSE CharAt(s, i)])

removePunctuationsAndNumbers(text) ==
    TrimSpace(ReplaceNumbers(ReplacePunctuation(text)))

\* A faulty removeStopwords that keeps every word.
AllWords(text) == Fields(text)

removeStopwords(text) ==
    LET NotStop(word) == ToLower(word) \notin initializeStopWords
    IN  SelectSeq(Fields(text), NotStop)

caseFolding(tokens) == [i \in 1..Len(tokens) |-> ToLower(tokens[i])]

\* The suffix loop: the first suffix of the list that matches is removed.
StripSuffix(word) ==
    LET matching == {k \in 1..Len(suffixes) : HasSuffix(word, suffixes[k])}
    IN  IF matching = {} THEN word
        ELSE TrimSuffix(word, suffixes[CHOOSE k \in matching : \A j \in matching : k <= j])

\* A faulty prefix loop that removes the first prefix that matches, however
\* little it leaves.
StripAnyPrefix(word) ==
    LET matching == {k \in 1..Len(prefixes) : HasPrefix(word, prefixes[k])}
    IN  IF matching = {} THEN word
        ELSE TrimPrefix(word, prefixes[CHOOSE k \in matching : \A j \in matching : k <= j])

\* The prefix loop: the first prefix of the list that matches and leaves at
\* least 4 characters is removed; a matching prefix that leaves fewer does
\* not end the loop.
StripPrefix(word) ==
    LET matching == {k \in 1..Len(prefixes) :
                        HasPrefix(word, prefixes[k]) /\ Len(TrimPrefix(word, prefixes[k])) >= 4}
    IN  IF matching = {} THEN word
        ELSE TrimPrefix(word, prefixes[CHOOSE k \in matching : \A j \in matching : k <= j])

stem(word) ==
    IF Len(word) < 4 THEN word
    ELSE LET stripped == StripPrefix(StripSuffix(word))
         IN  IF Len(stripped) < 3 THEN word ELSE stripped

stemming(tokens) == [i \in 1..Len(tokens) |-> stem(tokens[i])]

ProcessText(text) ==
    stemming(caseFolding(removeStopwords(removePunctuationsAndNumbers(text))))

(***************************************************************************)
(* Inverted index.  A Go map is a function with a finite domain; document  *)
(* ids and token positions count from 0 as in the code.                    *)
(***************************************************************************)
NewInvertedIndex == <<>>

ArticleTokens(article) == ProcessText(article.Title \o " " \o article.Content)

\* A faulty loop body that counts a document for a term at every occurrence
\* of the term, not only at the first.
IndexTokenCounting(idx, docID, pos, token) ==
    LET list == IF token \in DOMAIN idx THEN idx[token]
                ELSE [DocFrequency |-> 0, Postings |-> <<>>]
        posting == IF docID \in DOMAIN list.Postings THEN list.Postings[docID]
                   ELSE [DocID |-> docID, Frequency |-> 0, Positions |-> <<>>]
        updated == [DocID |-> docID,
                    Frequency |-> posting.Frequency + 1,
                    Positions |-> Append(posting.Positions, pos)]
    IN  (token :> [DocFrequency |-> list.DocFrequency + 1,
                   Postings |-> (docID :> updated) @@ list.Postings]) @@ idx

\* The body of the token loop of buildInvertedIndex for one token.
IndexToken(idx, docID, pos, token) ==
    LET withTerm ==
            IF token \in DOMAIN idx THEN idx
            ELSE idx @@ (token :> [DocFrequency |-> 0, Postings |-> <<>>])
        list == withTerm[token]
        withPosting ==
            IF docID \in DOMAIN list.Postings THEN list
            ELSE [DocFrequency |-> list.DocFrequency + 1,
                  Postings |-> list.Postings @@
                      (docID :> [DocID |-> docID, Frequency |-> 0, Positions |-> <<>>])]
        posting == withPosting.Postings[docID]
        updated == [DocID |-> posting.DocID,
                    Frequency |-> posting.Frequency + 1,
                    Positions |-> Append(posting.Positions, pos)]
    IN  [withTerm EXCEPT ![token] =
            [withPosting EXCEPT !.Postings = [@ EXCEPT ![docID] = updated]]]

\* The iterations of the two nested loops of buildInvertedIndex, in order.
TokenItems(docID, tokens) ==
    [p \in 1..Len(tokens) |-> [docID |-> docID, pos |-> p - 1, token |-> tokens[p]]]

RECURSIVE IndexItemsFrom(_, _)
IndexItemsFrom(articles, i) ==
    IF i > Len(articles) THEN <<>>
    ELSE TokenItems(i - 1, ArticleTokens(articles[i])) \o IndexItemsFrom(articles, i + 1)

IndexItems(articles) == IndexItemsFrom(articles, 1)

\* the index after the iterations lo..hi, starting from idx
RECURSIVE IndexRange(_, _, _, _)
IndexRest(first, items, lo, hi) ==
    IF Evaluated(first) THEN IndexRange(first, items, lo, hi) ELSE first

IndexRange(idx, items, lo, hi) ==
    IF lo > hi THEN idx
    ELSE IF lo = hi
         THEN IndexToken(idx, items[lo].docID, items[lo].pos, items[lo].token)
         ELSE IndexRest(IndexRange(idx, items, lo, (lo + hi) \div 2),
                        items, (lo + hi) \div 2 + 1, hi)

IndexAll(items) == IndexRange(NewInvertedIndex, items, 1, Len(items))

buildInvertedIndex(articles) == IndexAll(IndexItems(articles))

(***************************************************************************)
(* TF-IDF and the two similarity scores.                                   *)
(***************************************************************************)
\* A faulty table with an entry for every document under every term, 0 for
\* a document without the term.
calculateDense(invertedIndex, totalDocs) ==
    [term \in DOMAIN invertedIndex |->
        [docID \in 0..(totalDocs - 1) |->
            IF docID \in DOMAIN invertedIndex[term].Postings
            THEN FMul(FFromInt(invertedIndex[term].Postings[docID].Frequency),
                      MathLog(FDiv(FFromInt(totalDocs),
                                   FFromInt(invertedIndex[term].DocFrequency))))
            ELSE FZero]]

calculateTFIDF(invertedIndex, totalDocs) ==
    [term \in DOMAIN invertedIndex |->
        LET postingList == invertedIndex[term]
            idf == MathLog(FDiv(FFromInt(totalDocs), FFromInt(postingList.DocFrequency)))
        IN  [docID \in DOMAIN postingList.Postings |->
                FMul(FFromInt(postingList.Postings[docID].Frequency), idf)]]

\* The distinct elements of seq in the order of their first occurrence: the
\* order in which a loop over seq inserts them into a map.
Distinct(seq) ==
    LET firsts == SortedSeq({i \in 1..Len(seq) : \A j \in 1..(i - 1) : seq[j] # seq[i]})
    IN  [k \in 1..Len(firsts) |-> seq[firsts[k]]]

\* The order in which a range statement visits the keys of map m.  Go leaves
\* the order unspecified; the runtime starts at a random entry and wraps
\* around, so the model takes the rotation by rot of the insertion order
\* (inserted lists, in insertion order, at least the keys of m).
RangeOrder(m, inserted, rot) ==
    LET keys == SelectSeq(inserted, LAMBDA t : t \in DOMAIN m)
        n == Len(keys)
    IN  [k \in 1..n |-> keys[((k - 1 + rot) % n) + 1]]

\* magnitude += weight * weight over the keys in the given order
RECURSIVE SumSquares(_, _, _)
SumSquares(vector, order, n) ==
    IF n = 0 THEN FZero
    ELSE FAdd(SumSquares(vector, order, n - 1), FMul(vector[order[n]], vector[order[n]]))

Normalized(vector, magnitude) ==
    IF FGt(magnitude, FZero)
    THEN [term \in DOMAIN vector |-> FDiv(vector[term], magnitude)]
    ELSE <<>>

normalizeVector(vector, order) ==
    Normalized(vector, FSqrt(SumSquares(vector, order, Len(order))))

\* dotProduct += queryWeight * docWeight over the query's keys in the given
\* order, for the keys the document vector has
RECURSIVE DotProduct(_, _, _, _)
DotProduct(normalizedQuery, normalizedDoc, order, n) ==
    IF n = 0 THEN FZero
    ELSE LET before == DotProduct(normalizedQuery, normalizedDoc, order, n - 1)
             term == order[n]
         IN  IF term \in DOMAIN normalizedDoc
             THEN FAdd(before, FMul(normalizedQuery[term], normalizedDoc[term]))
             ELSE before

\* iter gives the call's map iteration: iter.rot, the insertion order
\* iter.queryTerms of the query vector and iter.indexTerms of the index.
DotProductIn(normalizedQuery, normalizedDoc, order) ==
    DotProduct(normalizedQuery, normalizedDoc, order, Len(order))

\* docVector[term] = docScores[docID] for the terms whose docScores has docID
DocVector(tfidfScores, docID) ==
    [term \in {t \in DOMAIN tfidfScores : docID \in DOMAIN tfidfScores[t]} |->
        tfidfScores[term][docID]]

NormalizedIn(vector, inserted, rot) ==
    normalizeVector(vector, RangeOrder(vector, inserted, rot))

CosineOf(normalizedQuery, normalizedDoc, iter) ==
    DotProductIn(normalizedQuery, normalizedDoc,
                 RangeOrder(normalizedQuery, iter.queryTerms, iter.rot))

cosineSimilarityWithTFIDF(queryVector, tfidfScores, docID, iter) ==
    CosineOf(NormalizedIn(queryVector, iter.queryTerms, iter.rot),
             NormalizedIn(DocVector(tfidfScores, docID), iter.indexTerms, iter.rot),
             iter)

\* A faulty Jaccard score that takes the whole query for the intersection.
JaccardOfQuery(queryVector, tfidfScores, docID) ==
    LET querySet == DOMAIN queryVector
        docSet == {t \in DOMAIN tfidfScores : docID \in DOMAIN tfidfScores[t]}
    IN  IF querySet \cup docSet = {} THEN FZero
        ELSE FDiv(FFromInt(Cardinality(querySet)), FFromInt(Cardinality(querySet \cup docSet)))

jaccardSimilarityWithTFIDF(queryVector, tfidfScores, docID) ==
    LET querySet == DOMAIN queryVector
        docSet == {t \in DOMAIN tfidfScores : docID \in DOMAIN tfidfScores[t]}
        intersection == Cardinality(querySet \cap docSet)
        union == Cardinality(querySet) + Cardinality(docSet) - intersection
    IN  IF union = 0 THEN FZero
        ELSE FDiv(FFromInt(intersection), FFromInt(union))

(***************************************************************************)
(* Search                                                                  *)
(***************************************************************************)
getFaviconPath(url) ==
    IF HasPrefix(url, "https://artikel.rumah123.com/") THEN "/static/rumah123.png"
    ELSE IF HasPrefix(url, "https://propertiterkini.com/") THEN "/static/propertiterkini.png"
    ELSE IF HasPrefix(url, "https://propertyandthecity.com/")
         THEN "/static/propertyandthecity.png"
         ELSE "/static/favicon.svg"

\* articles.json is missing, holds something that is no JSON array of
\* articles, or holds the array file.articles.
loadArticles(file) ==
    IF file.kind = "missing" THEN [articles |-> <<>>, err |-> "read"]
    ELSE IF file.kind = "malformed" THEN [articles |-> <<>>, err |-> "parse"]
         ELSE [articles |-> file.articles, err |-> "nil"]

\* A faulty switch whose default case is the Jaccard score.
ScoreDefaultJaccard(method, queryVector, tfidfScores, i, iter) ==
    IF method = "cosine" THEN cosineSimilarityWithTFIDF(queryVector, tfidfScores, i, iter)
    ELSE jaccardSimilarityWithTFIDF(queryVector, tfidfScores, i)

\* The score of document i under the method: the switch of searching.
Score(method, queryVector, tfidfScores, i, iter) ==
    IF method = "cosine" THEN cosineSimilarityWithTFIDF(queryVector, tfidfScores, i, iter)
    ELSE IF method = "jaccard" THEN jaccardSimilarityWithTFIDF(queryVector, tfidfScores, i)
         ELSE cosineSimilarityWithTFIDF(queryVector, tfidfScores, i, iter)

\* sort.Slice(results, less) with less(i, j) = results[i].Score > results[j].Score.
\* For the lengths of the model sort.Slice is an insertion sort: element i
\* moves left while less(it, its left neighbour).
RECURSIVE SinkLeft(_, _)
SinkLeft(data, j) ==
    IF j > 1 /\ FGt(data[j].Score, data[j - 1].Score)
    THEN SinkLeft([data EXCEPT ![j] = data[j - 1], ![j - 1] = data[j]], j - 1)
    ELSE data

RECURSIVE InsertionSort(_, _)
InsertionSort(data, i) ==
    IF i > Len(data) THEN data
    ELSE LET next == SinkLeft(data, i)
         IN  IF Evaluated(next) THEN InsertionSort(next, i + 1) ELSE next

\* A faulty sort that leaves the slice as it is.
Unsorted(results) == results

SortSlice(results) == InsertionSort(results, 2)

\* queryVector[token]++ for every token of the query
QueryVector(queryTokens) ==
    [token \in {queryTokens[k] : k \in 1..Len(queryTokens)} |->
        FFromInt(Cardinality({k \in 1..Len(queryTokens) : queryTokens[k] = token}))]

\* The call's map iteration: the rotation, and the order in which the query
\* vector and the index received their keys.
Iteration(rot, queryTokens, items) ==
    [rot |-> rot,
     queryTerms |-> Distinct(queryTokens),
     indexTerms |-> Distinct([k \in 1..Len(items) |-> items[k].token])]

\* the score of every article, by position
Scores(method, queryVector, tfidfScores, totalDocs, iter) ==
    [i \in 1..totalDocs |-> Score(method, queryVector, tfidfScores, i - 1, iter)]

\* A faulty filter that keeps every document.
KeptAll(scores) == [i \in 1..Len(scores) |-> i]

\* if score > 0
Kept(scores) == SelectSeq([i \in 1..Len(scores) |-> i], LAMBDA i : FGt(scores[i], FZero))

Results(articles, scores, kept) ==
    [k \in 1..Len(kept) |->
        [Title |-> articles[kept[k]].Title,
         URL |-> articles[kept[k]].URL,
         Score |-> scores[kept[k]],
         Favicon |-> getFaviconPath(articles[kept[k]].URL)]]

Ranked(articles, scores) ==
    [results |-> SortSlice(Results(articles, scores, Kept(scores))), err |-> "nil",
     indexBuilt |-> TRUE, scores |-> scores]

searchingTokens(articles, queryTokens, method, rot) ==
    Ranked(articles,
           Scores(method, QueryVector(queryTokens),
                  calculateTFIDF(buildInvertedIndex(articles), Len(articles)),
                  Len(articles),
                  Iteration(rot, queryTokens, IndexItems(articles))))

\* A faulty searching that goes on after a failed load.
searchingUnchecked(loaded, query, method, rot) ==
    searchingTokens(loaded.articles, ProcessText(query), method, rot)

searchingLoaded(loaded, query, method, rot) ==
    IF loaded.err # "nil"
    THEN [results |-> <<>>, err |-> loaded.err, indexBuilt |-> FALSE, scores |-> <<>>]
    ELSE searchingTokens(loaded.articles, ProcessText(query), method, rot)

\* One call of searching(query, method) with the file as it is and the map
\* iteration rot: what it returns (results) and what it did on the way
\* (err, whether it built the index, the score of each document it scored).
searchingRun(file, query, method, rot) ==
    searchingLoaded(loadArticles(file), query, method, rot)

searching(file, query, method, rot) == searchingRun(file, query, method, rot).results

(***************************************************************************)
(* The second search.go of the file (lines 582-857): the articles come     *)
(* from three files and a document is scored from its own tokens, without  *)
(* an index.  Its loadArticles and searching are loadArticles2 and         *)
(* searchingRun2 here.                                                     *)
(***************************************************************************)
tokenizePunctuation == CharsOf(".,!?()[]{}:;\"")

stopWords ==
    { "yang", "di", "ke", "dari",
      "dan", "atau", "ini", "itu",
      "juga", "sudah", "saya", "anda",
      "dia", "mereka", "kita", "akan",
      "bisa", "ada", "tidak", "saat",
      "oleh", "setelah", "para", "dengan" }

tokenize(text) ==
    LET lower == ToLower(text)
        mapped == Concat([i \in 1..Len(lower) |->
                             IF CharAt(lower, i) \in tokenizePunctuation THEN " "
                             ELSE CharAt(lower, i)])
        tokens == Fields(mapped)
    IN  SelectSeq(tokens, LAMBDA token : token \notin stopWords /\ Len(token) > 1)

\* freq[token]++ for every token of tokens
TokenFreq(tokens) == QueryVector(tokens)

\* The three sums are sums of products of counts: whole numbers far below
\* 2^53, which float64 adds exactly in any order of the map iteration.
CosineFrom(dotProduct, queryMagnitude, docMagnitude) ==
    IF FIsZero(queryMagnitude) \/ FIsZero(docMagnitude) THEN FZero
    ELSE FDiv(dotProduct, FMul(FSqrt(queryMagnitude), FSqrt(docMagnitude)))

CosineFreq(queryFreq, docFreq, queryOrder, docOrder) ==
    CosineFrom(DotProductIn(queryFreq, docFreq, queryOrder),
               SumSquares(queryFreq, queryOrder, Len(queryOrder)),
               SumSquares(docFreq, docOrder, Len(docOrder)))

cosineSimilarity(queryTokens, docTokens) ==
    CosineFreq(TokenFreq(queryTokens), TokenFreq(docTokens),
               Distinct(queryTokens), Distinct(docTokens))

jaccardSimilarity(queryTokens, docTokens) ==
    LET querySet == {queryTokens[k] : k \in 1..Len(queryTokens)}
        docSet == {docTokens[k] : k \in 1..Len(docTokens)}
        intersection == Cardinality(querySet \cap docSet)
        union == Cardinality(querySet) + Cardinality(docSet) - intersection
    IN  IF union = 0 THEN FZero
        ELSE FDiv(FFromInt(intersection), FFromInt(union))

jsonFiles ==
    << "propertiterkini/articles2.json",
       "propertyandthecity/articles.json",
       "rumah123/articles3.json" >>

\* stores[name] is the file of that name: missing, no JSON array of
\* articles, or the array stores[name].articles.  A file that cannot be read
\* or parsed is skipped; err is always nil.
RECURSIVE LoadFrom(_, _)
LoadFrom(stores, k) ==
    IF k > Len(jsonFiles) THEN <<>>
    ELSE (IF stores[jsonFiles[k]].kind = "ok" THEN stores[jsonFiles[k]].articles ELSE <<>>)
             \o LoadFrom(stores, k + 1)

loadArticles2(stores) == [articles |-> LoadFrom(stores, 1), err |-> "nil"]

Score2(method, queryTokens, docTokens) ==
    IF method = "cosine" THEN cosineSimilarity(queryTokens, docTokens)
    ELSE IF method = "jaccard" THEN jaccardSimilarity(queryTokens, docTokens)
         ELSE cosineSimilarity(queryTokens, docTokens)

Scores2(method, queryTokens, articles) ==
    [i \in 1..Len(articles) |->
        Score2(method, queryTokens,
               tokenize(articles[i].Title \o " " \o articles[i].Content))]

Results2(articles, scores, kept) ==
    [k \in 1..Len(kept) |->
        [Title |-> articles[kept[k]].Title,
         URL |-> articles[kept[k]].URL,
         Score |-> scores[kept[k]]]]

Ranked2(articles, scores) ==
    [results |-> SortSlice(Results2(articles, scores, Kept(scores))), err |-> "nil",
     indexBuilt |-> FALSE, scores |-> scores]

searchingLoaded2(loaded, query, method) ==
    IF loaded.err # "nil"
    THEN [results |-> <<>>, err |-> loaded.err, indexBuilt |-> FALSE, scores |-> <<>>]
    ELSE Ranked2(loaded.articles, Scores2(method, tokenize(query), loaded.articles))

\* One call of the second searching(query, method) with the three files as
\* they are.
searchingRun2(stores, query, method) ==
    searchingLoaded2(loadArticles2(stores), query, method)

(***************************************************************************)
(* Bounds and inputs                                                       *)
(***************************************************************************)
MaxDocs == 2
MaxRot == 1
MaxStored == 1

Article(title, content, url) == [Title |-> title, Content |-> content, URL |-> url]

ArticlePool ==
    { Article("Harga Rumah Naik", "Harga rumah di kota naik tajam tahun ini", "u1"),
      Article("Rumah Murah", "rumah murah", "https://artikel.rumah123.com/murah"),
      Article("Kota", "Kota besar 2024!", "https://propertiterkini.com/kota") }

StoredPool ==
    { Article("Rumah Murah", "rumah murah", "https://artikel.rumah123.com/murah"),
      Article("Kota", "Kota besar 2024!", "https://propertiterkini.com/kota") }

Collections == UNION {[1..n -> ArticlePool] : n \in 0..MaxDocs}

Files ==
    {[kind |-> "ok", articles |-> c] : c \in Collections}
        \cup {[kind |-> "missing", articles |-> <<>>],
              [kind |-> "malformed", articles |-> <<>>]}

Queries ==
    { "harga rumah", "yang dan itu", "Yang 2024, itu!", "Kota besar",
      "rumah murah, rumah murah, rumah murah" }

Methods == {"cosine", "jaccard", "", "bm25"}

\* The three article files: each missing, malformed, or an array of at most
\* MaxStored articles.
\* An article is stored once.
StoredFiles ==
    {[kind |-> "ok", articles |-> c] :
        c \in {s \in UNION {[1..n -> StoredPool] : n \in 0..MaxStored} :
                  \A j, k \in 1..Len(s) : j # k => s[j] # s[k]}}
        \cup {[kind |-> "missing", articles |-> <<>>],
              [kind |-> "malformed", articles |-> <<>>]}

Stores == [{jsonFiles[k] : k \in 1..Len(jsonFiles)} -> StoredFiles]

\* The files a build does not read are not there.
NoFile == [kind |-> "missing", articles |-> <<>>]
NoStores == [name \in {jsonFiles[k] : k \in 1..Len(jsonFiles)} |-> NoFile]

NoCall == [query |-> "", method |-> "none"]
NoReturn == [results |-> <<>>, err |-> "none", indexBuilt |-> FALSE, scores |-> <<>>]

(***************************************************************************)
(* State: which of the two search.go is built (build), the file            *)
(* articles.json the first reads and the three files the second reads, the *)
(* call of searching in progress and what it returned; for the index       *)
(* construction taken step by step, the index so far and the number of     *)
(* iterations done; the calls of searching that run at the same time       *)
(* (calls); the page request of the handler and its answer (page); the     *)
(* scraper (scrape); the word given to stem and what stem returned         *)
(* (token); the content given to getContentPreview and what it returned    *)
(* (preview).  A part that a specification does not use is <<>>.           *)
(***************************************************************************)
VARIABLES build, file, stores, call, ret, idx, done, calls, page, scrape, token, preview

vars ==
    <<build, file, stores, call, ret, idx, done, calls, page, scrape, token, preview>>

Init ==
    /\ build = "index"
    /\ file \in Files
    /\ stores = NoStores
    /\ call = NoCall
    /\ ret = NoReturn
    /\ idx = NewInvertedIndex
    /\ done = 0
    /\ calls = <<>>
    /\ page = <<>>
    /\ scrape = <<>>
    /\ token = <<>>
    /\ preview = <<>>

\* searchHandlerGet is entered with the query and the method of the request.
Receive(query, method) ==
    /\ call = NoCall
    /\ call' = [query |-> query, method |-> method]
    /\ UNCHANGED <<build, file, stores, ret, idx, done, calls, page, scrape, token, preview>>

\* searching(query, method) runs and returns.
Search(rot) ==
    /\ build = "index"
    /\ call # NoCall
    /\ ret = NoReturn
    /\ ret' = searchingRun(file, call.query, call.method, rot)
    /\ UNCHANGED <<build, file, stores, call, idx, done, calls, page, scrape, token, preview>>

\* The handler has answered; the next request may come.
Respond ==
    /\ ret # NoReturn
    /\ call' = NoCall
    /\ ret' = NoReturn
    /\ UNCHANGED <<build, file, stores, idx, done, calls, page, scrape, token, preview>>

Next ==
    \/ \E query \in Queries, method \in Methods : Receive(query, method)
    \/ \E rot \in 0..MaxRot : Search(rot)
    \/ Respond

Spec == Init /\ [][Next]_vars

\* buildInvertedIndex taken one token at a time over the file's articles.
IndexStep ==
    /\ file.kind = "ok"
    /\ done < Len(IndexItems(file.articles))
    /\ LET item == IndexItems(file.articles)[done + 1]
       IN  idx' = IndexToken(idx, item.docID, item.pos, item.token)
    /\ done' = done + 1
    /\ UNCHANGED <<build, file, stores, call, ret, calls, page, scrape, token, preview>>

NextIndex == IndexStep

SpecIndex == Init /\ [][NextIndex]_vars

\* Either build of search.go, with the files it reads.
InitLoad ==
    /\ \/ build = "index" /\ file \in StoredFiles /\ stores = NoStores
       \/ build = "files" /\ file = NoFile /\ stores \in Stores
    /\ call = NoCall
    /\ ret = NoReturn
    /\ idx = NewInvertedIndex
    /\ done = 0
    /\ calls = <<>>
    /\ page = <<>>
    /\ scrape = <<>>
    /\ token = <<>>
    /\ preview = <<>>

\* The second searching(query, method) runs and returns.
Search2 ==
    /\ build = "files"
    /\ call # NoCall
    /\ ret = NoReturn
    /\ ret' = searchingRun2(stores, call.query, call.method)
    /\ UNCHANGED <<build, file, stores, call, idx, done, calls, page, scrape, token, preview>>

NextLoad ==
    \/ \E query \in Queries, method \in Methods : Receive(query, method)
    \/ \E rot \in 0..MaxRot : Search(rot)
    \/ Search2
    \/ Respond

SpecLoad == InitLoad /\ [][NextLoad]_vars

(***************************************************************************)
(* Properties.  After Search (or Search2) the state holds the call and     *)
(* what it returned; the properties speak of these states.                 *)
(***************************************************************************)
Returned == ret # NoReturn

ReturnedLoaded == Returned /\ build = "index" /\ file.kind = "ok"

TermSet(tokens) == {tokens[k] : k \in 1..Len(tokens)}

\* the positions of the documents whose score is not zero
Positive(scores) == {i \in 1..Len(scores) : ~FIsZero(scores[i])}

\* results lists the documents docs of articles, each once, with its score
ListsExactly(results, articles, scores, docs) ==
    /\ Len(results) = Cardinality(docs)
    /\ \E place \in [1..Len(results) -> docs] :
          /\ \A j, k \in 1..Len(results) : j # k => place[j] # place[k]
          /\ \A k \in 1..Len(results) :
                /\ results[k].Title = articles[place[k]].Title
                /\ results[k].URL = articles[place[k]].URL
                /\ results[k].Score = scores[place[k]]

Occurrences(seq, x) == Cardinality({k \in 1..Len(seq) : seq[k] = x})

IsPermutation(s, t) ==
    /\ Len(s) = Len(t)
    /\ \A k \in 1..Len(s) : Occurrences(s, s[k]) = Occurrences(t, s[k])

RemoveAt(seq, i) == [k \in 1..(Len(seq) - 1) |-> IF k < i THEN seq[k] ELSE seq[k + 1]]

\* the documents of a result list, in order
Ranking(results) ==
    [k \in 1..Len(results) |-> [Title |-> results[k].Title, URL |-> results[k].URL]]

ScenarioA ==
    <<Article("Harga Rumah Naik", "Harga rumah di kota naik tajam tahun ini", "u1")>>

\* C1: Scenario A.  The cosine search for "harga rumah" over the corpus of
\* the one document u1 ("Harga Rumah Naik" / "Harga rumah di kota naik tajam
\* tahun ini") returns exactly one entry, for u1, with a score > 0.
C1_ScenarioA ==
    (/\ ReturnedLoaded
     /\ file.articles = ScenarioA
     /\ call = [query |-> "harga rumah", method |-> "cosine"])
        => /\ Len(ret.results) = 1
           /\ ret.results[1].URL = "u1"
           /\ FGt(ret.results[1].Score, FZero)

\* C2: Monotonic filtering.  When a document that scored 0 is removed from
\* the collection, the same search returns the same documents in the same
\* order (under some iteration order of the maps).
C2_MonotonicFiltering ==
    ReturnedLoaded =>
        \A i \in 1..Len(file.articles) :
            FIsZero(ret.scores[i]) =>
                \E rot \in 0..MaxRot :
                    Ranking(searching([kind |-> "ok",
                                       articles |-> RemoveAt(file.articles, i)],
                                      call.query, call.method, rot))
                        = Ranking(ret.results)

\* C3: The results are exactly the documents whose score is > 0: none with
\* score 0, every one with a score > 0, each once.
C3_ExactlyPositive ==
    ReturnedLoaded =>
        ListsExactly(ret.results, file.articles, ret.scores, Positive(ret.scores))

\* a search that kept some documents and dropped others
C3_Witness ==
    /\ ReturnedLoaded
    /\ Positive(ret.scores) # {}
    /\ Positive(ret.scores) # 1..Len(file.articles)

\* C4: The results are sorted by non-increasing score, and are a
\* permutation of the kept results: sorting loses and duplicates none.
C4_SortedPermutation ==
    ReturnedLoaded =>
        /\ \A i, j \in 1..Len(ret.results) :
              i < j => FCmp(ret.results[i].Score, ret.results[j].Score) >= 0
        /\ IsPermutation(ret.results, Results(file.articles, ret.scores, Kept(ret.scores)))

\* a search whose kept results the sort had to reorder
C4_Witness ==
    /\ ReturnedLoaded
    /\ Len(ret.results) >= 2
    /\ ret.results # Results(file.articles, ret.scores, Kept(ret.scores))

\* C5: Every score, cosine or Jaccard, lies in [0, 1].
C5_ScoreBounds ==
    ReturnedLoaded =>
        \A i \in 1..Len(ret.scores) :
            FCmp(ret.scores[i], FZero) >= 0 /\ FCmp(ret.scores[i], FOne) <= 0

\* C6: A document that shares no normalized term with the query scores
\* exactly 0, under either method, and is not among the results.
C6_DisjointScoresZero ==
    ReturnedLoaded =>
        \A i \in 1..Len(file.articles) :
            TermSet(ProcessText(call.query)) \cap TermSet(ArticleTokens(file.articles[i])) = {}
                => /\ FIsZero(ret.scores[i])
                   /\ \A k \in 1..Len(ret.results) :
                         ret.results[k].URL # file.articles[i].URL

\* a query with terms, a document that shares none of them and a document
\* that is returned
C6_Witness ==
    /\ ReturnedLoaded
    /\ ProcessText(call.query) # <<>>
    /\ ret.results # <<>>
    /\ \E i \in 1..Len(file.articles) :
          TermSet(ProcessText(call.query)) \cap TermSet(ArticleTokens(file.articles[i])) = {}

\* every word of the query, after punctuation and numbers are removed, is a
\* stopword
AllRemoved(query) ==
    \A word \in TermSet(Fields(removePunctuationsAndNumbers(query))) :
        ToLower(word) \in initializeStopWords

\* C7: Scenario B.  Over a non-empty corpus a query all of whose tokens the
\* stopword, punctuation and number filters remove gives an empty query
\* vector, every document scores 0, and the search returns the empty list
\* without failing.
C7_AllStopwords ==
    (ReturnedLoaded /\ file.articles # <<>> /\ AllRemoved(call.query)) =>
        /\ DOMAIN QueryVector(ProcessText(call.query)) = {}
        /\ Len(ret.scores) = Len(file.articles)
        /\ \A i \in 1..Len(ret.scores) : FIsZero(ret.scores[i])
        /\ ret.results = <<>>
        /\ ret.err = "nil"

C7_Witness ==
    /\ ReturnedLoaded
    /\ Len(file.articles) = MaxDocs
    /\ call.query = "yang dan itu"

\* C8: A search with a method other than "jaccard" returns what the search
\* with method "cosine" returns (under the same iteration order of the
\* maps).
C8_DefaultIsCosine ==
    (Returned /\ build = "index" /\ call.method # "jaccard") =>
        \E rot \in 0..MaxRot : ret = searchingRun(file, call.query, "cosine", rot)

C8_Witness ==
    /\ ReturnedLoaded
    /\ call.method \notin {"cosine", "jaccard"}
    /\ ret.results # <<>>

\* the names of the article files that cannot be loaded
FailedStores == {name \in DOMAIN stores : stores[name].kind # "ok"}

\* the three files with an empty array in the place of those that failed
LoadedStores ==
    [name \in DOMAIN stores |->
        IF name \in FailedStores THEN [kind |-> "ok", articles |-> <<>>] ELSE stores[name]]

LoadFails ==
    \/ build = "index" /\ file.kind # "ok"
    \/ build = "files" /\ FailedStores # {}

LoadFailsWhole ==
    \/ build = "index" /\ file.kind # "ok"
    \/ build = "files" /\ FailedStores = DOMAIN stores

EmptyCollectionResults ==
    IF build = "index"
    THEN searching([kind |-> "ok", articles |-> <<>>], call.query, call.method, 0)
    ELSE searchingRun2([name \in DOMAIN stores |-> [kind |-> "ok", articles |-> <<>>]],
                       call.query, call.method).results

\* C9 as stated: when the storage of the collection is missing or malformed
\* the search returns the empty list, as for an empty collection, builds no
\* index and scores no document.
C9_AnyLoadFailure ==
    (Returned /\ LoadFails) =>
        /\ ret.results = <<>>
        /\ ret.results = EmptyCollectionResults
        /\ ~ret.indexBuilt
        /\ ret.scores = <<>>

\* C9: When the load fails as a whole (articles.json missing or malformed;
\* or all three article files), searching returns the empty list, as for an
\* empty collection, builds no index and scores no document.  With three
\* article files a file that fails is skipped: the search returns what it
\* returns when that file holds an empty array.
C9_LoadFailure ==
    /\ (Returned /\ LoadFailsWhole) =>
          /\ ret.results = <<>>
          /\ ret.results = EmptyCollectionResults
          /\ ~ret.indexBuilt
          /\ ret.scores = <<>>
    /\ (Returned /\ build = "files" /\ FailedStores # {}) =>
          ret = searchingRun2(LoadedStores, call.query, call.method)

\* a search over three files of which one is missing, one malformed, and
\* the third gives results
C9_Witness ==
    /\ Returned
    /\ build = "files"
    /\ \E name \in DOMAIN stores : stores[name].kind = "missing"
    /\ \E name \in DOMAIN stores : stores[name].kind = "malformed"
    /\ ret.results # <<>>

StrictlyAscending(seq) == \A k \in 1..(Len(seq) - 1) : seq[k] < seq[k + 1]

\* C10: After every step of buildInvertedIndex, for every term
\* DocFrequency is the number of its postings, and for every posting
\* Frequency is the length of Positions, which lists in strictly ascending
\* order offsets at which the document has the term.
C10_IndexConsistency ==
    \A term \in DOMAIN idx :
        /\ idx[term].DocFrequency = Cardinality(DOMAIN idx[term].Postings)
        /\ \A docID \in DOMAIN idx[term].Postings :
              LET posting == idx[term].Postings[docID]
                  tokens == ArticleTokens(file.articles[docID + 1])
              IN  /\ posting.DocID = docID
                  /\ posting.Frequency = Len(posting.Positions)
                  /\ StrictlyAscending(posting.Positions)
                  /\ \A k \in 1..Len(posting.Positions) :
                        /\ posting.Positions[k] < Len(tokens)
                        /\ tokens[posting.Positions[k] + 1] = term

\* in the middle of the construction, a term of two documents and a term
\* that occurs twice in a document
C10_Witness ==
    /\ done > 0
    /\ done < Len(IndexItems(file.articles))
    /\ \E term \in DOMAIN idx : idx[term].DocFrequency >= 2
    /\ \E term \in DOMAIN idx : \E docID \in DOMAIN idx[term].Postings :
          idx[term].Postings[docID].Frequency >= 2

(***************************************************************************)
(* The index over articles whose words the normalizer changes.             *)
(***************************************************************************)
TermPool ==
    { Article("Bagian Kota", "bagian kota besar", "u2"),
      Article("Harga", "harga_rumah naik 1_000 kali", "u3"),
      Article("Rumah Murah", "rumah murah 2024", "https://artikel.rumah123.com/murah") }

InitTerms ==
    /\ build = "index"
    /\ file \in {[kind |-> "ok", articles |-> c] :
                    c \in UNION {[1..n -> TermPool] : n \in 0..MaxDocs}}
    /\ stores = NoStores
    /\ call = NoCall
    /\ ret = NoReturn
    /\ idx = NewInvertedIndex
    /\ done = 0
    /\ calls = <<>>
    /\ page = <<>>
    /\ scrape = <<>>
    /\ token = <<>>
    /\ preview = <<>>

SpecTerms == InitTerms /\ [][NextIndex]_vars

PureNumeric(term) == term # "" /\ \A i \in 1..Len(term) : IsDigit(CharAt(term, i))

\* a character that is neither a letter nor a digit
HasPunctuation(term) ==
    \E i \in 1..Len(term) :
        CharAt(term, i) \notin CharsOf(LowerLetters) \cup UpperSet \cup DigitSet

\* C11: No key of the inverted index is a stopword, none is a pure-numeric
\* token and none contains punctuation.
C11_IndexTerms ==
    \A term \in DOMAIN idx :
        /\ term \notin initializeStopWords
        /\ ~PureNumeric(term)
        /\ ~HasPunctuation(term)

(***************************************************************************)
(* Calls of searching that run at the same time, as the handler starts one *)
(* per request.  Each call has its own locals (calls[c]); the file is the  *)
(* only thing the calls share, and the text processor, which is constant   *)
(* after init.  A call takes one part of searching at a time: the load,    *)
(* the index and its weights, the query vector, the scores and the sort.   *)
(***************************************************************************)
MaxCalls == 2

Requests ==
    { [query |-> "harga rumah", method |-> "cosine"],
      [query |-> "Kota besar", method |-> "jaccard"] }

\* the locals of a call that has not started
NoLocals ==
    [pc |-> "idle", query |-> "", method |-> "", articles |-> <<>>, err |-> "nil",
     invertedIndex |-> <<>>, tfidfScores |-> <<>>, queryTokens |-> <<>>,
     queryVector |-> <<>>, results |-> <<>>]

\* A faulty queryVector, one variable of the package: a call scores with the
\* vector that the last of the calls wrote.
SharedVector(cs, c) ==
    LET written == {d \in DOMAIN cs : cs[d].pc \in {"score", "return"}}
    IN  cs[CHOOSE d \in written : \A e \in written : d >= e].queryVector

\* queryVector is a local of searching
CallVector(cs, c) == cs[c].queryVector

\* The locals of call c after its next statement.
searchingStep(cs, c, loaded, rot) ==
    CASE cs[c].pc = "load" ->
            IF loaded.err # "nil"
            THEN [cs[c] EXCEPT !.pc = "return", !.err = loaded.err, !.results = <<>>]
            ELSE [cs[c] EXCEPT !.pc = "index", !.articles = loaded.articles]
      [] cs[c].pc = "index" ->
            [cs[c] EXCEPT !.pc = "query",
                          !.invertedIndex = buildInvertedIndex(cs[c].articles),
                          !.tfidfScores = calculateTFIDF(buildInvertedIndex(cs[c].articles),
                                                         Len(cs[c].articles))]
      [] cs[c].pc = "query" ->
            [cs[c] EXCEPT !.pc = "score",
                          !.queryTokens = ProcessText(cs[c].query),
                          !.queryVector = QueryVector(ProcessText(cs[c].query))]
      [] cs[c].pc = "score" ->
            [cs[c] EXCEPT !.pc = "return",
                          !.results =
                              Ranked(cs[c].articles,
                                     Scores(cs[c].method, CallVector(cs, c),
                                            cs[c].tfidfScores, Len(cs[c].articles),
                                            Iteration(rot, cs[c].queryTokens,
                                                      IndexItems(cs[c].articles)))).results]

InitCalls ==
    /\ build = "index"
    /\ file \in {f \in [kind : {"ok"}, articles : [1..Cardinality(StoredPool) -> StoredPool]] :
                    f.articles[1] # f.articles[Len(f.articles)]} \cup {NoFile}
    /\ stores = NoStores
    /\ call = NoCall
    /\ ret = NoReturn
    /\ idx = NewInvertedIndex
    /\ done = 0
    /\ calls = [c \in 1..MaxCalls |-> NoLocals]
    /\ page = <<>>
    /\ scrape = <<>>
    /\ token = <<>>
    /\ preview = <<>>

\* The handler of a request calls searching(query, method).
StartCall(c, request) ==
    /\ calls[c].pc = "idle"
    /\ calls' = [calls EXCEPT ![c] = [NoLocals EXCEPT !.pc = "load",
                                                      !.query = request.query,
                                                      !.method = request.method]]
    /\ UNCHANGED <<build, file, stores, call, ret, idx, done, page, scrape, token, preview>>

\* Call c takes its next statement.
StepCall(c, rot) ==
    /\ calls[c].pc \notin {"idle", "return"}
    /\ calls' = [calls EXCEPT ![c] = searchingStep(calls, c, loadArticles(file), rot)]
    /\ UNCHANGED <<build, file, stores, call, ret, idx, done, page, scrape, token, preview>>

\* searching returns; its locals are gone.
ReturnCall(c) ==
    /\ calls[c].pc = "return"
    /\ calls' = [calls EXCEPT ![c] = NoLocals]
    /\ UNCHANGED <<build, file, stores, call, ret, idx, done, page, scrape, token, preview>>

NextCalls ==
    \/ \E c \in 1..MaxCalls, request \in Requests : StartCall(c, request)
    \/ \E c \in 1..MaxCalls, rot \in 0..MaxRot : StepCall(c, rot)
    \/ \E c \in 1..MaxCalls : ReturnCall(c)

SpecCalls == InitCalls /\ [][NextCalls]_vars

\* C12: Calls of searching that run at the same time over the same file are
\* independent: under every interleaving a call returns what it returns
\* alone; no step changes the file or the locals of a call other than the
\* one that takes it; and a call starts with no locals of an earlier call.
C12_Independent ==
    /\ [](\A c \in DOMAIN calls :
            calls[c].pc = "return" =>
                \E rot \in 0..MaxRot :
                    calls[c].results
                        = searching(file, calls[c].query, calls[c].method, rot))
    /\ [][/\ file' = file
          /\ \A c, d \in DOMAIN calls :
                (calls'[c] # calls[c] /\ d # c) => calls'[d] = calls[d]
          /\ \A c \in DOMAIN calls :
                (calls[c].pc = "idle" /\ calls'[c].pc # "idle") =>
                    calls'[c] = [NoLocals EXCEPT !.pc = "load",
                                                 !.query = calls'[c].query,
                                                 !.method = calls'[c].method]]_vars

\* a call has returned results while another call, with another query, is
\* between its statements
C12_Witness ==
    /\ DOMAIN calls = 1..MaxCalls
    /\ \E c, d \in DOMAIN calls :
          /\ calls[c].pc = "return"
          /\ calls[c].results # <<>>
          /\ calls[d].pc \in {"index", "query", "score"}
          /\ calls[d].query # calls[c].query

(***************************************************************************)
(* searchHandlerGet (main.go): the page of the results that a request      *)
(* gets.  The request is the list that searching returned and the values   *)
(* of its page parameter.                                                  *)
(***************************************************************************)
ITEMS_PER_PAGE == 10

MaxResults == 21

\* c.DefaultQuery(key, defaultValue): the first value of the key, the default
\* when the request has none
DefaultQuery(values, defaultValue) == IF values = <<>> THEN defaultValue ELSE values[1]

\* strconv.Atoi for a text of few characters: an optional sign and decimal
\* digits; the handler drops the error, with which the value is 0
Atoi(s) ==
    LET signed == Len(s) > 0 /\ CharAt(s, 1) \in {"+", "-"}
        digits == IF signed THEN SubSeq(s, 2, Len(s)) ELSE s
        DigitAt(i) == (CHOOSE k \in 1..Len(DigitChars) :
                          CharAt(DigitChars, k) = CharAt(digits, i)) - 1
        value[n \in 0..Len(digits)] ==
            IF n = 0 THEN 0 ELSE 10 * value[n - 1] + DigitAt(n)
    IN  IF digits = "" \/ \E i \in 1..Len(digits) : ~IsDigit(CharAt(digits, i))
        THEN 0
        ELSE IF signed /\ CharAt(s, 1) = "-" THEN 0 - value[Len(digits)]
             ELSE value[Len(digits)]

\* int(math.Ceil(x)) for a float64 0 <= x < 2^28
CeilInt(x) ==
    IF FIsZero(x) THEN 0
    ELSE LET whole == BShr(x.m, 0 - x.e)
         IN  Limb(whole, 1) + LimbBase * Limb(whole, 2)
                + (IF BShl(whole, 0 - x.e) = x.m THEN 0 ELSE 1)

\* A faulty handler that takes the page as it was asked.
PageAsked(asked, totalPages) == asked

\* if page < 1 { page = 1 } else if page > totalPages && totalPages > 0 { ... }
PageOf(asked, totalPages) ==
    IF asked < 1 THEN 1
    ELSE IF asked > totalPages /\ totalPages > 0 THEN totalPages ELSE asked

\* allResults[start:end], which panics unless 0 <= start <= end <= len
Slice(allResults, start, end) ==
    IF 0 <= start /\ start <= end /\ end <= Len(allResults)
    THEN [panic |-> FALSE, start |-> start, end |-> end,
          results |-> SubSeq(allResults, start + 1, end)]
    ELSE [panic |-> TRUE, start |-> start, end |-> end, results |-> <<>>]

\* what the template gets for the page, and the slice taken
PageData(allResults, current, totalPages) ==
    [paged |-> IF Len(allResults) > 0
               THEN Slice(allResults, (current - 1) * ITEMS_PER_PAGE,
                          IF (current - 1) * ITEMS_PER_PAGE + ITEMS_PER_PAGE > Len(allResults)
                          THEN Len(allResults)
                          ELSE (current - 1) * ITEMS_PER_PAGE + ITEMS_PER_PAGE)
               ELSE [panic |-> FALSE, start |-> 0, end |-> 0, results |-> <<>>],
     currentPage |-> current,
     totalPages |-> totalPages,
     totalResults |-> Len(allResults),
     previousPage |-> current - 1,
     nextPage |-> current + 1,
     showPrevious |-> current > 1,
     showNext |-> current < totalPages]

PageClamped(allResults, asked, totalPages) ==
    PageData(allResults, PageOf(asked, totalPages), totalPages)

searchHandlerGet(allResults, pageValues) ==
    PageClamped(allResults, Atoi(DefaultQuery(pageValues, "1")),
                CeilInt(FDiv(FFromInt(Len(allResults)), FFromInt(ITEMS_PER_PAGE))))

\* The values of the page parameter: none, or a text.
PageValues ==
    {<<>>} \cup {<<text>> : text \in {"", "abc", "2x", "-1", "0", "1", "2", "+3", "4", "99"}}

NoAnswer == [currentPage |-> 0]

InitPage ==
    /\ build = "index"
    /\ file = NoFile
    /\ stores = NoStores
    /\ call = NoCall
    /\ ret = NoReturn
    /\ idx = NewInvertedIndex
    /\ done = 0
    /\ calls = <<>>
    /\ page = [allResults |-> <<>>, values |-> <<>>, answer |-> NoAnswer]
    /\ scrape = <<>>
    /\ token = <<>>
    /\ preview = <<>>

\* A request comes; searching gives it total results, ranked 1, 2, ...
RequestPage(total, values) ==
    /\ page' = [allResults |-> [k \in 1..total |-> k], values |-> values,
                answer |-> NoAnswer]
    /\ UNCHANGED <<build, file, stores, call, ret, idx, done, calls, scrape, token, preview>>

\* The handler answers the request.
ServePage ==
    /\ page.answer = NoAnswer
    /\ page' = [page EXCEPT !.answer = searchHandlerGet(page.allResults, page.values)]
    /\ UNCHANGED <<build, file, stores, call, ret, idx, done, calls, scrape, token, preview>>

NextPage ==
    \/ \E total \in 0..MaxResults, values \in PageValues : RequestPage(total, values)
    \/ ServePage

SpecPage == InitPage /\ [][NextPage]_vars

\* the results of the pages 1..last of a list of fewer than 100 results, one
\* after the other
RECURSIVE PagesUpTo(_, _)
PagesUpTo(allResults, last) ==
    IF last = 0 THEN <<>>
    ELSE PagesUpTo(allResults, last - 1)
            \o searchHandlerGet(allResults, <<CharAt(DigitChars, last + 1)>>).paged.results

Answered == page # <<>> /\ page.answer # NoAnswer

\* C13: For every number of results and every page asked, the handler shows
\* at most 10 results, the slice has 0 <= start <= end <= totalResults, the
\* page is within 1..totalPages when there are results, and the pages
\* 1..totalPages one after the other are the ranked list.
C13_Pagination ==
    Answered =>
        /\ Len(page.answer.paged.results) <= ITEMS_PER_PAGE
        /\ ~page.answer.paged.panic
        /\ 0 <= page.answer.paged.start
        /\ page.answer.paged.start <= page.answer.paged.end
        /\ page.answer.paged.end <= page.answer.totalResults
        /\ page.answer.totalResults > 0 =>
              /\ 1 <= page.answer.currentPage
              /\ page.answer.currentPage <= page.answer.totalPages
        /\ PagesUpTo(page.allResults, page.answer.totalPages) = page.allResults

\* a page asked past the last of three pages: the answer is the last page,
\* with the one result left for it
C13_Witness ==
    /\ Answered
    /\ page.values = <<"99">>
    /\ page.answer.totalPages = 3
    /\ page.answer.currentPage = 3
    /\ page.answer.paged.start = 2 * ITEMS_PER_PAGE
    /\ page.answer.paged.results # <<>>

\* the terms whose TF-IDF entry for the document is there and is not 0
NonzeroTerms(tfidfScores, docID) ==
    {term \in DOMAIN tfidfScores :
        docID \in DOMAIN tfidfScores[term] /\ ~FIsZero(tfidfScores[term][docID])}

\* |intersection| / |union|, 0 when the union is empty
JaccardOfSets(querySet, docSet) ==
    IF querySet \cup docSet = {} THEN FZero
    ELSE FDiv(FFromInt(Cardinality(querySet \cap docSet)),
              FFromInt(Cardinality(querySet \cup docSet)))

\* C14: The Jaccard score of a document is |intersection| / |union| (0 when
\* the union is empty) of the query's term set and the set of the terms
\* whose TF-IDF weight for the document is not 0: a term of weight 0 is
\* counted in neither.
C14_JaccardNonzero ==
    (ReturnedLoaded /\ call.method = "jaccard") =>
        \A i \in 1..Len(ret.scores) :
            ret.scores[i]
                = JaccardOfSets(DOMAIN QueryVector(ProcessText(call.query)),
                                NonzeroTerms(calculateTFIDF(buildInvertedIndex(file.articles),
                                                            Len(file.articles)),
                                             i - 1))

\* the index has term with 1 <= DocFrequency <= totalDocs, so that
\* totalDocs / DocFrequency is a quotient by a non-zero number and is >= 1,
\* where the logarithm is defined and >= 0
IdfDefined(invertedIndex, totalDocs, term) ==
    /\ 1 <= invertedIndex[term].DocFrequency
    /\ invertedIndex[term].DocFrequency <= totalDocs
    /\ FCmp(FDiv(FFromInt(totalDocs), FFromInt(invertedIndex[term].DocFrequency)),
            FOne) >= 0

\* the table has entries where the index has postings, and none is negative
TableOfIndex(invertedIndex, tfidfScores) ==
    /\ DOMAIN tfidfScores = DOMAIN invertedIndex
    /\ \A term \in DOMAIN invertedIndex :
          /\ DOMAIN tfidfScores[term] = DOMAIN invertedIndex[term].Postings
          /\ \A docID \in DOMAIN tfidfScores[term] :
                FCmp(tfidfScores[term][docID], FZero) >= 0

\* C15: For every corpus, the empty one too, every term of the index that
\* calculateTFIDF goes over has 1 <= DocFrequency <= totalDocs, so that idf
\* is defined and >= 0 and every weight is >= 0; and the TF-IDF table has an
\* entry for a term and a document exactly when the index has a posting.
C15_IdfDefined ==
    ReturnedLoaded =>
        /\ \A term \in DOMAIN buildInvertedIndex(file.articles) :
              IdfDefined(buildInvertedIndex(file.articles), Len(file.articles), term)
        /\ TableOfIndex(buildInvertedIndex(file.articles),
                        calculateTFIDF(buildInvertedIndex(file.articles),
                                       Len(file.articles)))

\* a search over two documents, with a term of one of them and a term of
\* both, for which idf is 0
C15_Witness ==
    /\ ReturnedLoaded
    /\ Len(file.articles) = 2
    /\ \E term \in DOMAIN buildInvertedIndex(file.articles) :
          buildInvertedIndex(file.articles)[term].DocFrequency = 1
    /\ \E term \in DOMAIN buildInvertedIndex(file.articles) :
          /\ buildInvertedIndex(file.articles)[term].DocFrequency = 2
          /\ FIsZero(calculateTFIDF(buildInvertedIndex(file.articles), 2)[term][0])

(***************************************************************************)
(* stem on its own, over the words made of a prefix of the list or none,   *)
(* a few letters, and a suffix of the list or none.                        *)
(***************************************************************************)
MaxMiddle == 2

\* the words of at most n letters among a, k, m
RECURSIVE Middles(_)
Middles(n) ==
    IF n = 0 THEN {""}
    ELSE Middles(n - 1) \cup {w \o c : w \in Middles(n - 1), c \in {"a", "k", "m"}}

Tokens ==
    {p \o m \o s : p \in {""} \cup {prefixes[k] : k \in 1..Len(prefixes)},
                   m \in Middles(MaxMiddle),
                   s \in {""} \cup {suffixes[k] : k \in 1..Len(suffixes)}}

InitStem ==
    /\ build = "index"
    /\ file = NoFile
    /\ stores = NoStores
    /\ call = NoCall
    /\ ret = NoReturn
    /\ idx = NewInvertedIndex
    /\ done = 0
    /\ calls = <<>>
    /\ page = <<>>
    /\ scrape = <<>>
    /\ token \in [word : Tokens, stem : {""}, stemmed : {FALSE}]
    /\ preview = <<>>

\* stemming calls tp.stem(token)
StemToken ==
    /\ ~token.stemmed
    /\ token' = [token EXCEPT !.stem = stem(token.word), !.stemmed = TRUE]
    /\ UNCHANGED <<build, file, stores, call, ret, idx, done, calls, page, scrape, preview>>

NextStem == StemToken

SpecStem == InitStem /\ [][NextStem]_vars

\* the first element of list, in its order, that satisfies Matches
FirstMatch(list, Matches(_)) ==
    LET matching == {k \in 1..Len(list) : Matches(list[k])}
    IN  IF matching = {} THEN ""
        ELSE list[CHOOSE k \in matching : \A j \in matching : k <= j]

\* the prefix step of the description: the first prefix that matches is
\* stripped if at least 4 characters remain; no other prefix is tried
ReferencePrefix(word, prefix) ==
    IF Len(word) - Len(prefix) >= 4 THEN SubSeq(word, Len(prefix) + 1, Len(word)) ELSE word

\* the suffix step: the first suffix that matches is stripped
ReferenceSuffix(word, suffix) == SubSeq(word, 1, Len(word) - Len(suffix))

ReferenceStem(word) ==
    LET afterSuffix == ReferenceSuffix(word, FirstMatch(suffixes, LAMBDA x : HasSuffix(word, x)))
        afterPrefix ==
            ReferencePrefix(afterSuffix,
                            FirstMatch(prefixes, LAMBDA x : HasPrefix(afterSuffix, x)))
    IN  IF Len(word) < 4 THEN word
        ELSE IF Len(afterPrefix) < 3 THEN word ELSE afterPrefix

\* C16: stem returns what the description gives: a token of fewer than 4
\* characters unchanged; otherwise the token without the first suffix of the
\* list that matches and then without the first prefix of the list that
\* matches, the prefix stripped only if at least 4 characters remain and no
\* other prefix in its place, or the token itself if fewer than 3
\* characters are left.  The result for a token of 4 characters or more has
\* at least 3.
C16_StemReference ==
    (token # <<>> /\ token.stemmed) =>
        /\ token.stem = ReferenceStem(token.word)
        /\ Len(token.word) >= 4 => Len(token.stem) >= 3

\* a word whose first matching prefix would leave 3 characters, which stem
\* returns whole, and no longer prefix was stripped in its place
C16_Witness ==
    /\ token # <<>>
    /\ token.stemmed
    /\ token.word = "memak"
    /\ token.stem = "memak"

(***************************************************************************)
(* getContentPreview and cleanContent (first search.go).  The contents of  *)
(* the model are made of small letters, digits, blanks and commas: in      *)
(* them the unwanted texts and the URL, e-mail and handle patterns of      *)
(* cleanContent (steps 1 to 4), which need a capital letter, a dot, a      *)
(* colon or an at sign, match nothing.                                     *)
(***************************************************************************)
PreviewLength == 160

PreviewLead == 60

\* strings.Join
Join(pieces, sep) ==
    Concat([k \in 1..(2 * Len(pieces) - 1) |->
              IF k % 2 = 1 THEN pieces[(k + 1) \div 2] ELSE sep])

\* strings.Index: the offset of the first sub in s, -1 if there is none
Index(s, sub) ==
    LET at == {i \in 0..(Len(s) - Len(sub)) : SubSeq(s, i + 1, i + Len(sub)) = sub}
    IN  IF at = {} THEN 0 - 1 ELSE CHOOSE i \in at : \A j \in at : i <= j

\* step 5, `[^a-zA-Z0-9\s]+` replaced by a blank (the blanks are merged in
\* step 7)
ReplaceSpecial(s) ==
    Concat([i \in 1..Len(s) |->
              IF CharAt(s, i) \in WordCharSet \ {"_"} \/ IsSpace(CharAt(s, i))
              THEN CharAt(s, i) ELSE " "])

\* the elements of seq at the positions of the set at, in order
Picked(seq, order) == [j \in 1..Len(order) |-> seq[order[j]]]

\* step 6, `\s+\d+\s+` replaced by a blank, on the words of the text: a
\* word of digits with white space before it and after it goes, unless the
\* match before it took the white space between them
WithoutNumbers(words, lead, trail) ==
    LET Numeric(k) == \A i \in 1..Len(words[k]) : IsDigit(CharAt(words[k], i))
        removed[k \in 0..Len(words)] ==
            IF k = 0 THEN FALSE
            ELSE /\ Numeric(k)
                 /\ k > 1 \/ lead
                 /\ k < Len(words) \/ trail
                 /\ ~removed[k - 1]
    IN  Picked(words, SortedSeq({k \in 1..Len(words) : ~removed[k]}))

\* step 10: a word equal to the word before it goes
UniqueWords(words) ==
    Picked(words, SortedSeq({k \in 1..Len(words) : k = 1 \/ words[k] # words[k - 1]}))

\* steps 6 to 11 on the text that step 5 left
CleanReplaced(s) ==
    Join(UniqueWords(WithoutNumbers(Fields(s), HasPrefix(s, " "), HasSuffix(s, " "))), " ")

cleanContent(content) == CleanReplaced(ReplaceSpecial(content))

\* wordPos += len(words[i]) + 1 for the first wordCount words
WordPos(words, wordCount) ==
    LET sum[n \in 0..Len(words)] ==
            IF n = 0 THEN 0 ELSE sum[n - 1] + Len(words[n]) + 1
    IN  sum[IF wordCount < Len(words) THEN wordCount ELSE Len(words)]

\* the window of the preview, with the marks at its ends
PreviewWindow(cleaned, pos, wordPos, start) ==
    LET end == IF start + PreviewLength > Len(cleaned) THEN Len(cleaned)
               ELSE start + PreviewLength
    IN  [cleaned |-> cleaned, pos |-> pos, wordPos |-> wordPos, start |-> start,
         end |-> end,
         text |-> (IF start > 0 THEN "..." ELSE "")
                     \o SubSeq(cleaned, start + 1, end)
                     \o (IF end < Len(cleaned) THEN "..." ELSE "")]

PreviewFrom(cleaned, pos, wordPos) ==
    PreviewWindow(cleaned, pos, wordPos,
                  IF wordPos - PreviewLead < 0 THEN 0 ELSE wordPos - PreviewLead)

PreviewAt(cleaned, contentText, pos) ==
    IF pos = 0 - 1
    THEN [cleaned |-> cleaned, pos |-> pos, wordPos |-> 0, start |-> 0,
          end |-> PreviewLength, text |-> SubSeq(cleaned, 1, PreviewLength) \o "..."]
    ELSE PreviewFrom(cleaned, pos,
                     WordPos(Fields(cleaned), Len(Fields(SubSeq(contentText, 1, pos)))))

PreviewIn(cleaned, contentText, queryText) ==
    PreviewAt(cleaned, contentText, Index(ToLower(contentText), ToLower(queryText)))

PreviewOf(cleaned, query) ==
    IF Len(cleaned) <= PreviewLength
    THEN [cleaned |-> cleaned, pos |-> 0 - 1, wordPos |-> 0, start |-> 0,
          end |-> Len(cleaned), text |-> cleaned]
    ELSE PreviewIn(cleaned, Join(ProcessText(cleaned), " "), Join(ProcessText(query), " "))

\* maxLength is set to 160 whatever the caller gave
getContentPreview(content, query, maxLength) == PreviewOf(cleanContent(content), query)

(***************************************************************************)
(* The previews of long contents: some words before the words "harga rumah *)
(* murah, dijual" and some after them.                                     *)
(***************************************************************************)
MaxBlocks == 18

RECURSIVE Blocks(_, _)
Blocks(block, n) == IF n = 0 THEN "" ELSE block \o Blocks(block, n - 1)

PreviewContents ==
    {Blocks(before, m) \o "harga rumah murah, dijual" \o Blocks(" " \o after, n) :
        before \in {"yang dan ", "kota besar "}, m \in {0, MaxBlocks \div 3, MaxBlocks},
        after \in {"baru 12", "di sini"}, n \in {0, MaxBlocks}}

PreviewQueries == {"harga rumah", "Rumah", "umah", "apartemen", "yang"}

NoPreview == [text |-> "", start |-> 0, end |-> 0]

InitPreview ==
    /\ preview \in [content : PreviewContents, query : PreviewQueries,
                    done : {FALSE}, result : {NoPreview}]
    /\ build = [step |-> "idle"]
    /\ file = NoFile
    /\ stores = <<>>
    /\ call = <<>>
    /\ ret = <<>>
    /\ idx = <<>>
    /\ done = <<>>
    /\ calls = <<>>
    /\ page = <<>>
    /\ scrape = <<>>
    /\ token = <<>>

\* searchHandler fills the preview of a result
MakePreview ==
    /\ ~preview.done
    /\ preview' = [preview EXCEPT !.done = TRUE,
                     !.result = getContentPreview(preview.content, preview.query, PreviewLength)]
    /\ UNCHANGED <<build, file, stores, call, ret, idx, done, calls, page, scrape, token>>

NextPreview == MakePreview

SpecPreview == InitPreview /\ [][NextPreview]_vars

\* the positions in words of the words that ProcessText keeps: not a
\* stopword and not a number
KeptWords(words) ==
    SortedSeq({k \in 1..Len(words) : ProcessText(words[k]) # <<>>})

\* the offset in the cleaned content of its word number k
OffsetOfWord(words, k) == WordPos(words, k - 1)

\* the number of the processed token in which offset pos of the joined
\* tokens lies
TokenAt(contentText, pos) ==
    1 + Cardinality({i \in 1..pos : CharAt(contentText, i) = " "})

\* the offset in the cleaned content of the word in which the match starts
MatchOffset(cleaned, contentText, pos) ==
    OffsetOfWord(Fields(cleaned),
                 KeptWords(Fields(cleaned))[TokenAt(contentText, pos)])

PreviewMatch ==
    /\ preview.done
    /\ Len(preview.result.cleaned) > PreviewLength
    /\ preview.result.pos >= 0
    /\ Join(ProcessText(preview.query), " ") # ""

\* C17: when the cleaned content is longer than 160 characters and holds
\* the normalized query, the offset computed from the matched word index is
\* the position in the cleaned content of the word where the match starts,
\* the window starts 60 characters before it (not before 0), spans at most
\* 160 characters, is a valid slice and contains the start of that word,
\* and "..." is put before it exactly when it starts after 0 and after it
\* exactly when it ends before the end of the content.
C17_PreviewWindow ==
    PreviewMatch =>
        LET r == preview.result
            at == MatchOffset(r.cleaned, Join(ProcessText(r.cleaned), " "), r.pos)
        IN  /\ r.wordPos = at
            /\ r.start = (IF at < PreviewLead THEN 0 ELSE at - PreviewLead)
            /\ 0 <= r.start /\ r.start <= r.end /\ r.end <= Len(r.cleaned)
            /\ r.end - r.start <= PreviewLength
            /\ r.start <= at /\ at < r.end
            /\ HasPrefix(r.text, "...") <=> r.start > 0
            /\ HasSuffix(r.text, "...") <=> r.end < Len(r.cleaned)

(***************************************************************************)
(* The scraper (main of the propertyandthecity scraper; the rumah123 one   *)
(* has the same shape).  The collector is asynchronous: the pages are      *)
(* fetched and their article callbacks run in goroutines, at most          *)
(* Parallelism at a time.  articles = append(articles, article) is not     *)
(* synchronised: a callback reads the slice and writes the longer slice    *)
(* back, and other callbacks may run in between.                           *)
(***************************************************************************)
Parallelism == 3

MaxPages == 4

\* the article element of page number i: its title, its text and its URL
ScrapedPage(i) ==
    [url |-> "https://propertyandthecity.com/" \o CharAt(DigitChars, (i % 10) + 1),
     title |-> CASE i % 4 = 1 -> "Rumah Murah"
                 [] i % 4 = 2 -> " Kota Besar "
                 [] i % 4 = 3 -> "  "
                 [] OTHER -> "Apartemen",
     content |-> IF i % 4 = 0 THEN ""
                 ELSE "harga rumah " \o CharAt(DigitChars, (i % 10) + 1)]

\* the article that the callback builds from the element
ExtractArticle(element) ==
    [title |-> TrimSpace(element.title), content |-> element.content,
     url |-> element.url]

\* article.Title != "" && article.Content != ""
ValidArticle(article) == article.title # "" /\ article.content # ""

InitScrape ==
    /\ scrape = [jobs |-> [p \in 1..MaxPages |->
                             [pc |-> "queued", article |-> <<>>, local |-> <<>>]], articles |-> <<>>,
                 waited |-> FALSE, saved |-> FALSE, written |-> <<>>]
    /\ build = [step |-> "idle"]
    /\ file = NoFile
    /\ stores = <<>>
    /\ call = <<>>
    /\ ret = <<>>
    /\ idx = <<>>
    /\ done = <<>>
    /\ calls = <<>>
    /\ page = <<>>
    /\ token = <<>>
    /\ preview = <<>>

Active == {p \in 1..MaxPages : scrape.jobs[p].pc \in {"callback", "read", "write"}}

\* a page is fetched and its article callback starts
Visit(p) ==
    /\ scrape.jobs[p].pc = "queued"
    /\ Cardinality(Active) < Parallelism
    /\ scrape' = [scrape EXCEPT !.jobs[p].pc = "callback"]
    /\ UNCHANGED <<build, file, stores, call, ret, idx, done, calls, page, token, preview>>

\* the callback up to its test
Callback(p) ==
    /\ scrape.jobs[p].pc = "callback"
    /\ scrape' = [scrape EXCEPT !.jobs[p] =
                    [pc |-> IF ValidArticle(ExtractArticle(ScrapedPage(p)))
                            THEN "read" ELSE "done",
                     article |-> ExtractArticle(ScrapedPage(p)), local |-> <<>>]]
    /\ UNCHANGED <<build, file, stores, call, ret, idx, done, calls, page, token, preview>>

\* append reads the slice
AppendRead(p) ==
    /\ scrape.jobs[p].pc = "read"
    /\ scrape' = [scrape EXCEPT !.jobs[p].pc = "write",
                                !.jobs[p].local = scrape.articles]
    /\ UNCHANGED <<build, file, stores, call, ret, idx, done, calls, page, token, preview>>

\* the result of append is assigned to articles
AppendWrite(p) ==
    /\ scrape.jobs[p].pc = "write"
    /\ scrape' = [scrape EXCEPT !.jobs[p].pc = "done",
                                !.articles = Append(scrape.jobs[p].local,
                                                    scrape.jobs[p].article)]
    /\ UNCHANGED <<build, file, stores, call, ret, idx, done, calls, page, token, preview>>

\* c.Wait() returns when every job is over
Wait ==
    /\ ~scrape.waited
    /\ \A p \in 1..MaxPages : scrape.jobs[p].pc = "done"
    /\ scrape' = [scrape EXCEPT !.waited = TRUE]
    /\ UNCHANGED <<build, file, stores, call, ret, idx, done, calls, page, token, preview>>

\* encoder.Encode(articles)
Encode ==
    /\ scrape.waited
    /\ ~scrape.saved
    /\ scrape' = [scrape EXCEPT !.saved = TRUE, !.written = scrape.articles]
    /\ UNCHANGED <<build, file, stores, call, ret, idx, done, calls, page, token, preview>>

NextScrape ==
    \/ \E p \in 1..MaxPages : Visit(p)
    \/ \E p \in 1..MaxPages : Callback(p)
    \/ \E p \in 1..MaxPages : AppendRead(p)
    \/ \E p \in 1..MaxPages : AppendWrite(p)
    \/ Wait
    \/ Encode

SpecScrape == InitScrape /\ [][NextScrape]_vars

\* C18: under every interleaving of the article callbacks, every article
\* for which a callback found a non-empty title and a non-empty content is
\* exactly once in the slice that is encoded to the file, and the file is
\* written only after all the scraping jobs are over.
C18_EveryArticleOnce ==
    scrape.saved =>
        /\ \A p \in 1..MaxPages : scrape.jobs[p].pc = "done"
        /\ \A p \in 1..MaxPages :
              ValidArticle(ExtractArticle(ScrapedPage(p))) =>
                  Cardinality({k \in 1..Len(scrape.written) :
                                 scrape.written[k] = ExtractArticle(ScrapedPage(p))}) = 1
====
